---- MODULE Spec2Model ----
(***************************************************************************)
(* Model of generate_list.py: scrape the IMDb "popular TV" listing, look   *)
(* up a TVDB id for every scraped record through TVMaze, and write the     *)
(* resolved (title, tvdbId) list as JSON.                                  *)
(*                                                                         *)
(* Strings are sequences of one-character strings so that the regular      *)
(* expressions of the script are computed, not assumed.  JSON / Python     *)
(* values are records [t |-> type, v |-> integer payload].                 *)
(***************************************************************************)
EXTENDS Integers, Sequences, FiniteSets, TLC

VARIABLES
    pc,             \* position of main(): start, primary, fallback, returned,
                    \*   build, write, done, aborted
    count,          \* args.number
    listingStatus,  \* resp.status_code of the listing fetch, 0 = no response
    soup,           \* parsed listing page (local of fetch_popular_tv)
    items,          \* accumulator of fetch_popular_tv
    matchers,       \* matchers applied so far, in order
    raw,            \* main's raw = fetch_popular_tv(...)
    idx,            \* position of build_payload's for loop over raw_items
    lookups,        \* imdb_to_tvdb calls made so far: id, outcome, result
    payload,        \* build_payload's payload
    writeCalled,    \* write_json has been entered
    outfile,        \* contents of the output file
    exitCode,       \* process exit status (meaningful once pc is terminal)
    exitMsg         \* argument of sys.exit

vars == <<pc, count, listingStatus, soup, items, matchers, raw, idx, lookups,
          payload, writeCalled, outfile, exitCode, exitMsg>>

----------------------------------------------------------------------------
\* Bounds of the model

MaxCount == 2
MaxAnchors == 2
MaxEntries == 2

----------------------------------------------------------------------------
\* Text: characters, whitespace stripping, the regular expressions

Digits == {"0", "1", "2", "3", "4", "5", "6", "7", "8", "9"}

IsDigit(c) == c \in Digits

IsSpace(c) == c = " "

RECURSIVE DigitRun(_, _)
\* number of consecutive digits of s starting at position i: greedy \d*
DigitRun(s, i) ==
    IF i <= Len(s) /\ IsDigit(s[i]) THEN 1 + DigitRun(s, i + 1) ELSE 0

RECURSIVE SpaceRun(_, _)
\* number of consecutive whitespace characters starting at i: greedy \s*
SpaceRun(s, i) ==
    IF i <= Len(s) /\ IsSpace(s[i]) THEN 1 + SpaceRun(s, i + 1) ELSE 0

RECURSIVE TrailingSpaceRun(_, _)
TrailingSpaceRun(s, i) ==
    IF i >= 1 /\ IsSpace(s[i]) THEN 1 + TrailingSpaceRun(s, i - 1) ELSE 0

\* tag.get_text(strip=True) of a tag holding one text node
GetText(text) ==
    LET l == SpaceRun(text, 1)
    IN  IF l = Len(text) THEN <<>>
        ELSE SubSeq(text, l + 1, Len(text) - TrailingSpaceRun(text, Len(text)))

\* re.sub(r"^\d+\.\s*", "", raw_title)
StripRank(raw_title) ==
    LET d == DigitRun(raw_title, 1)
    IN  IF d >= 1 /\ d + 1 <= Len(raw_title) /\ raw_title[d + 1] = "."
        THEN SubSeq(raw_title, d + 2 + SpaceRun(raw_title, d + 2), Len(raw_title))
        ELSE raw_title

Contains(s, pat) ==
    \E i \in 1..(Len(s) - Len(pat) + 1) : SubSeq(s, i, i + Len(pat) - 1) = pat

TitleTT == <<"/", "t", "i", "t", "l", "e", "/", "t", "t">>

TitlePath == <<"/", "t", "i", "t", "l", "e", "/">>

\* the pattern tt(\d+) matches at position i of s
TTAt(s, i) ==
    /\ i + 2 <= Len(s)
    /\ s[i] = "t"
    /\ s[i + 1] = "t"
    /\ DigitRun(s, i + 2) >= 1

\* re.search(r"tt(\d+)", href): leftmost match, group 1 = the digits
SearchTT(href) ==
    IF \E i \in 1..Len(href) : TTAt(href, i)
    THEN LET i == CHOOSE j \in 1..Len(href) :
                      TTAt(href, j) /\ \A k \in 1..(j - 1) : ~TTAt(href, k)
         IN  [found |-> TRUE,
              group |-> SubSeq(href, i + 2, i + 1 + DigitRun(href, i + 2))]
    ELSE [found |-> FALSE, group |-> <<>>]

\* the pattern /title/(tt\d+)/ matches at position i of s
TitleAt(s, i) ==
    /\ i + 9 <= Len(s)
    /\ SubSeq(s, i, i + 6) = TitlePath
    /\ TTAt(s, i + 7)
    /\ i + 9 + DigitRun(s, i + 9) <= Len(s)
    /\ s[i + 9 + DigitRun(s, i + 9)] = "/"

\* re.search(r"/title/(tt\d+)/", a["href"]): group 1 = tt and the digits
SearchTitle(href) ==
    IF \E i \in 1..Len(href) : TitleAt(href, i)
    THEN LET i == CHOOSE j \in 1..Len(href) :
                      TitleAt(href, j) /\ \A k \in 1..(j - 1) : ~TitleAt(href, k)
         IN  [found |-> TRUE,
              group |-> SubSeq(href, i + 7, i + 8 + DigitRun(href, i + 9))]
    ELSE [found |-> FALSE, group |-> <<>>]

----------------------------------------------------------------------------
\* The listing page

\* <a class="ipc-title-link-wrapper" href=...> elements a page may hold
Anchors ==
    { [href |-> <<"/", "t", "i", "t", "l", "e", "/", "t", "t", "1", "2", "/">>,
       hasH3 |-> TRUE, h3 |-> <<"1", ".", " ", "W">>, text |-> <<>>],
      [href |-> <<"/", "t", "i", "t", "l", "e", "/", "t", "t", "7", "/">>,
       hasH3 |-> FALSE, h3 |-> <<>>, text |-> <<" ", "X", " ">>],
      [href |-> <<"/", "t", "i", "t", "l", "e", "/", "t", "t", "/">>,
       hasH3 |-> TRUE, h3 |-> <<"W">>, text |-> <<>>],
      [href |-> <<"/", "n", "a", "m", "e", "/", "n", "m", "1", "/">>,
       hasH3 |-> FALSE, h3 |-> <<>>, text |-> <<"W">>],
      [href |-> <<"/", "t", "i", "t", "l", "e", "/", "t", "t", "t", "3", "/">>,
       hasH3 |-> TRUE, h3 |-> <<"2", ".", " ">>, text |-> <<>>] }

\* <div class="lister-item"> elements a page may hold
Entries ==
    { [header |-> TRUE, a |-> TRUE, text |-> <<"W">>, hasHref |-> TRUE,
       href |-> <<"/", "t", "i", "t", "l", "e", "/", "t", "t", "1", "2", "/">>],
      [header |-> FALSE, a |-> FALSE, text |-> <<>>, hasHref |-> FALSE,
       href |-> <<>>],
      [header |-> TRUE, a |-> FALSE, text |-> <<>>, hasHref |-> FALSE,
       href |-> <<>>],
      [header |-> TRUE, a |-> TRUE, text |-> <<"X">>, hasHref |-> TRUE,
       href |-> <<"/", "t", "i", "t", "l", "e", "/", "t", "t", "7">>],
      [header |-> TRUE, a |-> TRUE, text |-> <<"X">>, hasHref |-> FALSE,
       href |-> <<>>],
      [header |-> TRUE, a |-> TRUE, text |-> <<" ">>, hasHref |-> TRUE,
       href |-> <<"/", "t", "i", "t", "l", "e", "/", "t", "t", "7", "/">>] }

SeqsUpTo(S, n) == UNION { [1..k -> S] : k \in 0..n }

Pages ==
    { [anchors |-> as, entries |-> es] :
        as \in SeqsUpTo(Anchors, MaxAnchors), es \in SeqsUpTo(Entries, MaxEntries) }

EmptySoup == [anchors |-> <<>>, entries |-> <<>>]

\* outcomes of requests.get on the listing URL
ListingStatuses == {200, 304, 404, 503}

\* variant: the status of the response is never examined
RaiseForStatus_Never(status) == FALSE

\* resp.raise_for_status(): raises HTTPError for 4xx and 5xx statuses only
RaiseForStatus(status) == 400 <= status /\ status < 600

\* soup.select('a.ipc-title-link-wrapper[href*="/title/tt"]')
PrimarySelect(s) == SelectSeq(s.anchors, LAMBDA a : Contains(a.href, TitleTT))

\* variant: the id is the captured group alone, without the "tt" prefix
PrimaryId_NoPrefix(group) == group

\* imdb_id = f"tt{imdb_match.group(1)}"
PrimaryId(group) == <<"t", "t">> \o group

\* the h3 text when the anchor holds one, else the anchor's own text
PrimaryTitle(a_tag) ==
    StripRank(IF a_tag.hasH3 THEN GetText(a_tag.h3) ELSE GetText(a_tag.text))

\* len(items) >= count: break
CountReached(its, n) == Len(its) >= n

RECURSIVE PrimaryLoop(_, _, _, _)
\* the for loop over the selected anchors, from the k-th on
PrimaryLoop(sel, k, its, n) ==
    IF k > Len(sel) THEN its
    ELSE LET m == SearchTT(sel[k].href)
         IN  IF ~m.found THEN PrimaryLoop(sel, k + 1, its, n)
             ELSE LET its2 == Append(its, [title |-> PrimaryTitle(sel[k]),
                                           imdbId |-> PrimaryId(m.group)])
                  IN  IF CountReached(its2, n) THEN its2
                      ELSE PrimaryLoop(sel, k + 1, its2, n)

\* variant: the legacy matcher runs whatever the primary matcher found
LegacyNeeded_Always(its) == TRUE

\* if not items: the legacy matcher runs
LegacyNeeded(its) == its = <<>>

RECURSIVE LegacyLoop(_, _, _, _)
\* the for loop over div.lister-item, from the k-th on; a["href"] of an
\* anchor without href raises KeyError
LegacyLoop(ents, k, its, n) ==
    IF k > Len(ents) THEN [raised |-> FALSE, items |-> its]
    ELSE LET e == ents[k]
         IN  IF ~e.header \/ ~e.a THEN LegacyLoop(ents, k + 1, its, n)
             ELSE IF ~e.hasHref THEN [raised |-> TRUE, items |-> its]
             ELSE LET m == SearchTitle(e.href)
                  IN  IF ~m.found THEN LegacyLoop(ents, k + 1, its, n)
                      ELSE LET its2 == Append(its, [title |-> GetText(e.text),
                                                    imdbId |-> m.group])
                           IN  IF CountReached(its2, n)
                               THEN [raised |-> FALSE, items |-> its2]
                               ELSE LegacyLoop(ents, k + 1, its2, n)

----------------------------------------------------------------------------
\* The lookup service

PyNone == [t |-> "none", v |-> 0]

JMissing == [t |-> "missing", v |-> 0]

JNull == [t |-> "null", v |-> 0]

JInt(n) == [t |-> "int", v |-> n]

JBool(b) == [t |-> "bool", v |-> IF b THEN 1 ELSE 0]

JStr == [t |-> "str", v |-> 0]

JFloat == [t |-> "float", v |-> 0]

\* values the "thetvdb" member may have
FieldValues ==
    {JMissing, JNull, JInt(0), JInt(-5), JInt(7), JInt(9), JStr, JBool(TRUE),
     JBool(FALSE), JFloat}

\* response bodies: not JSON, a JSON array, or an object whose "externals"
\* member is missing, null or an object
Bodies ==
    { [kind |-> "malformed", externals |-> "missing", thetvdb |-> JMissing],
      [kind |-> "list", externals |-> "missing", thetvdb |-> JMissing],
      [kind |-> "object", externals |-> "missing", thetvdb |-> JMissing],
      [kind |-> "object", externals |-> "null", thetvdb |-> JMissing] }
    \cup { [kind |-> "object", externals |-> "object", thetvdb |-> f] :
             f \in FieldValues }

LookupException == [kind |-> "exception", status |-> 0,
                    body |-> [kind |-> "malformed", externals |-> "missing",
                              thetvdb |-> JMissing]]

\* outcomes of requests.get on the lookup URL
LookupOutcomes ==
    {LookupException}
    \cup { [kind |-> "response", status |-> 200, body |-> b] : b \in Bodies }
    \cup { [kind |-> "response", status |-> s,
            body |-> [kind |-> "object", externals |-> "object", thetvdb |-> JInt(7)]] :
             s \in {201, 404} }
    \cup { [kind |-> "response", status |-> 500,
            body |-> [kind |-> "malformed", externals |-> "missing",
                      thetvdb |-> JMissing]] }

\* variant: the body is read whatever the status
StatusOk_Any(status) == TRUE

\* resp.status_code == 200
StatusOk(status) == status = 200

\* resp.json() and the two .get calls raise for a body that is not JSON, not
\* an object, or whose "externals" is null
BodyRaises(body) ==
    body.kind \in {"malformed", "list"} \/ body.externals = "null"

\* data.get("externals", {}).get("thetvdb")
GetTheTvdb(body) ==
    IF body.externals = "missing" \/ body.thetvdb.t \in {"missing", "null"}
    THEN PyNone
    ELSE body.thetvdb

\* isinstance(tvdb_id, int) and tvdb_id > 0; bool is a subclass of int
IsPositiveInt(x) == x.t \in {"int", "bool"} /\ x.v > 0

\* variant: the except clause catches the JSON errors only, so a network
\* exception leaves the function
Swallowed_JsonOnly(o) == o.kind # "exception"

\* the except clause of imdb_to_tvdb: every Exception is swallowed
Swallowed(o) == TRUE

\* imdb_to_tvdb: the value returned, or raised = TRUE when an exception
\* leaves the function
imdb_to_tvdb(o) ==
    IF o.kind = "exception" \/ (StatusOk(o.status) /\ BodyRaises(o.body))
    THEN [raised |-> ~Swallowed(o), value |-> PyNone]
    ELSE IF StatusOk(o.status) /\ IsPositiveInt(GetTheTvdb(o.body))
         THEN [raised |-> FALSE, value |-> GetTheTvdb(o.body)]
         ELSE [raised |-> FALSE, value |-> PyNone]

\* Python truth value of what imdb_to_tvdb returns
Truthy(x) == x.t # "none" /\ (x.t \in {"int", "bool", "float"} => x.v # 0)

\* variant: a resolved entry is put in front of the payload
AppendEntry_Front(pl, entry, tvdb_id) ==
    IF Truthy(tvdb_id)
    THEN <<[title |-> entry.title, tvdbId |-> tvdb_id]>> \o pl
    ELSE pl

\* if tvdb_id: payload.append({"title": ..., "tvdbId": tvdb_id})
AppendEntry(pl, entry, tvdb_id) ==
    IF Truthy(tvdb_id)
    THEN Append(pl, [title |-> entry.title, tvdbId |-> tvdb_id])
    ELSE pl

----------------------------------------------------------------------------
\* main

\* the output path before anything is written to it
NoFile == [exists |-> FALSE, data |-> <<>>]

\* variant: the message is reported but the status is success
ExitStatus_Zero(msg) == 0

\* exit status of sys.exit(arg) with a string argument
ExitStatus(msg) == 1

\* if not raw
NotRaw(r) == r = <<>>

\* variant: an empty payload is not noticed
NotPayload_Never(pl) == FALSE

\* if not payload
NotPayload(pl) == pl = <<>>

Abort(msg) ==
    /\ pc' = "aborted"
    /\ exitMsg' = msg
    /\ exitCode' = ExitStatus(msg)

Init ==
    /\ pc = "start"
    /\ count \in 0..MaxCount
    /\ listingStatus = 0
    /\ soup = EmptySoup
    /\ items = <<>>
    /\ matchers = <<>>
    /\ raw = <<>>
    /\ idx = 1
    /\ lookups = <<>>
    /\ payload = <<>>
    /\ writeCalled = FALSE
    /\ outfile = NoFile
    /\ exitCode = 0
    /\ exitMsg = "none"

\* requests.get raises (connection error, timeout)
FetchException ==
    /\ pc = "start"
    /\ Abort("Unexpected error: ConnectionError")
    /\ UNCHANGED <<count, listingStatus, soup, items, matchers, raw, idx,
                   lookups, payload, writeCalled, outfile>>

\* requests.get returns a response; raise_for_status; BeautifulSoup(...)
Fetch ==
    /\ pc = "start"
    /\ \E status \in ListingStatuses, page \in Pages :
         /\ listingStatus' = status
         /\ IF RaiseForStatus(status)
            THEN /\ Abort("Unexpected error: HTTPError")
                 /\ UNCHANGED soup
            ELSE /\ soup' = page
                 /\ pc' = "primary"
                 /\ UNCHANGED <<exitCode, exitMsg>>
    /\ UNCHANGED <<count, items, matchers, raw, idx, lookups, payload,
                   writeCalled, outfile>>

\* the loop of the new-layout matcher
PrimaryMatcher ==
    /\ pc = "primary"
    /\ items' = PrimaryLoop(PrimarySelect(soup), 1, <<>>, count)
    /\ matchers' = Append(matchers, "primary")
    /\ pc' = "fallback"
    /\ UNCHANGED <<count, listingStatus, soup, raw, idx, lookups, payload,
                   writeCalled, outfile, exitCode, exitMsg>>

\* the fallback block and the return of fetch_popular_tv
Fallback ==
    /\ pc = "fallback"
    /\ IF LegacyNeeded(items)
       THEN LET r == LegacyLoop(soup.entries, 1, items, count)
            IN  /\ matchers' = Append(matchers, "legacy")
                /\ IF r.raised
                   THEN /\ Abort("Unexpected error: KeyError")
                        /\ UNCHANGED raw
                   ELSE /\ raw' = r.items
                        /\ pc' = "returned"
                        /\ UNCHANGED <<exitCode, exitMsg>>
       ELSE /\ raw' = items
            /\ pc' = "returned"
            /\ UNCHANGED <<matchers, exitCode, exitMsg>>
    /\ soup' = EmptySoup
    /\ items' = <<>>
    /\ UNCHANGED <<count, listingStatus, idx, lookups, payload, writeCalled,
                   outfile>>

\* if not raw: sys.exit(...); else build_payload starts
CheckRaw ==
    /\ pc = "returned"
    /\ IF NotRaw(raw)
       THEN Abort("No shows were scraped from IMDb")
       ELSE /\ pc' = "build"
            /\ UNCHANGED <<exitCode, exitMsg>>
    /\ UNCHANGED <<count, listingStatus, soup, items, matchers, raw, idx,
                   lookups, payload, writeCalled, outfile>>

\* one iteration of build_payload's loop: one imdb_to_tvdb call
Lookup ==
    /\ pc = "build"
    /\ idx <= Len(raw)
    /\ \E o \in LookupOutcomes :
         LET r == imdb_to_tvdb(o)
         IN  /\ lookups' = Append(lookups, [imdbId |-> raw[idx].imdbId,
                                            outcome |-> o, result |-> r.value])
             /\ IF r.raised
                THEN /\ Abort("Unexpected error: RequestException")
                     /\ UNCHANGED <<payload, idx>>
                ELSE /\ payload' = AppendEntry(payload, raw[idx], r.value)
                     /\ idx' = idx + 1
                     /\ UNCHANGED <<pc, exitCode, exitMsg>>
    /\ UNCHANGED <<count, listingStatus, soup, items, matchers, raw,
                   writeCalled, outfile>>

\* build_payload returns; if not payload: sys.exit(...)
CheckPayload ==
    /\ pc = "build"
    /\ idx > Len(raw)
    /\ IF NotPayload(payload)
       THEN Abort("No TVDB IDs could be resolved")
       ELSE /\ pc' = "write"
            /\ UNCHANGED <<exitCode, exitMsg>>
    /\ UNCHANGED <<count, listingStatus, soup, items, matchers, raw, idx,
                   lookups, payload, writeCalled, outfile>>

\* write_json succeeds and main returns
WriteJson ==
    /\ pc = "write"
    /\ writeCalled' = TRUE
    /\ outfile' = [exists |-> TRUE, data |-> payload]
    /\ pc' = "done"
    /\ exitCode' = 0
    /\ UNCHANGED <<count, listingStatus, soup, items, matchers, raw, idx,
                   lookups, payload, exitMsg>>

\* outfile.write_text raises OSError; main's except clause exits
WriteJsonFails ==
    /\ pc = "write"
    /\ writeCalled' = TRUE
    /\ Abort("Unexpected error: OSError")
    /\ UNCHANGED <<count, listingStatus, soup, items, matchers, raw, idx,
                   lookups, payload, outfile>>

Next ==
    \/ FetchException
    \/ Fetch
    \/ PrimaryMatcher
    \/ Fallback
    \/ CheckRaw
    \/ Lookup
    \/ CheckPayload
    \/ WriteJson
    \/ WriteJsonFails

Spec == Init /\ [][Next]_vars

----------------------------------------------------------------------------
\* Properties

Terminal == pc \in {"done", "aborted"}

WellFormedId(id) ==
    /\ Len(id) >= 3
    /\ id[1] = "t"
    /\ id[2] = "t"
    /\ \A i \in 3..Len(id) : id[i] \in Digits

\* the body of the response is an object whose externals.thetvdb is a
\* positive JSON integer
HasPositiveIntField(o) ==
    /\ o.kind = "response"
    /\ o.body.kind = "object"
    /\ o.body.externals = "object"
    /\ o.body.thetvdb.t = "int"
    /\ o.body.thetvdb.v > 0

\* the body of the response is an object whose externals.thetvdb is true
HasTrueField(o) ==
    /\ o.kind = "response"
    /\ o.body.kind = "object"
    /\ o.body.externals = "object"
    /\ o.body.thetvdb = JBool(TRUE)

RECURSIVE ResolvedPrefix(_)
\* the first k records whose recorded resolution is present, in order, each
\* with its own id
ResolvedPrefix(k) ==
    IF k = 0 THEN <<>>
    ELSE IF lookups[k].result # PyNone
         THEN Append(ResolvedPrefix(k - 1),
                     [title |-> raw[k].title, tvdbId |-> lookups[k].result])
         ELSE ResolvedPrefix(k - 1)

\* C1: the sequence fetch_popular_tv returns has length at most the requested
\* count, for every count >= 0 including 0.
C1_AtMostCount == Len(raw) <= count

\* C2: build_payload's payload is exactly the subsequence of the records
\* resolved so far whose resolution is present, in input order, each paired
\* with its own resolved id.
C2_PayloadIsResolvedSubsequence ==
    /\ Len(lookups) <= Len(raw)
    /\ payload = ResolvedPrefix(Len(lookups))

C2_Witness ==
    /\ pc = "done"
    /\ Len(raw) = 2
    /\ raw[1].title # raw[2].title
    /\ lookups[1].result = PyNone
    /\ payload = <<[title |-> raw[2].title, tvdbId |-> lookups[2].result]>>

\* C3: imdb_to_tvdb is absent for every response whose secondary-id field is
\* not a positive integer (missing, null, zero, negative, string, boolean,
\* non-integer), and every tvdbId in the payload is a positive integer.
C3_NoFabricatedId ==
    /\ \A i \in DOMAIN lookups :
         ~HasPositiveIntField(lookups[i].outcome) => lookups[i].result = PyNone
    /\ \A i \in DOMAIN payload :
         payload[i].tvdbId.t = "int" /\ payload[i].tvdbId.v > 0

\* C4: imdb_to_tvdb is called exactly once for each record, in listing
\* order; a failed lookup neither stops the loop nor aborts the run, so a
\* run that started resolving ends with every record looked up.
C4_EveryRecordLookedUpOnce ==
    /\ Len(lookups) <= Len(raw)
    /\ \A i \in DOMAIN lookups : lookups[i].imdbId = raw[i].imdbId
    /\ pc = "build" => idx = Len(lookups) + 1
    /\ (Terminal /\ raw # <<>>) => Len(lookups) = Len(raw)

C4_Witness ==
    /\ pc = "done"
    /\ Len(raw) = 2
    /\ lookups[1].outcome.kind = "exception"
    /\ lookups[2].result # PyNone
    /\ Len(payload) = 1

\* C5: a run aborted because the listing fetch failed, because no record was
\* extracted or because no id was resolved has never entered write_json, and
\* write_json is entered only after a parsed listing, a non-empty extraction
\* and a non-empty payload.
C5_NoWriteOnFatalFault ==
    /\ (pc = "aborted" /\ exitMsg \in {"Unexpected error: ConnectionError",
                                       "Unexpected error: HTTPError",
                                       "No shows were scraped from IMDb",
                                       "No TVDB IDs could be resolved"})
         => (~writeCalled /\ outfile = NoFile)
    /\ writeCalled => (/\ listingStatus # 0
                       /\ matchers # <<>>
                       /\ raw # <<>>
                       /\ payload # <<>>)

C5_Witness ==
    /\ pc = "aborted"
    /\ exitMsg = "No TVDB IDs could be resolved"
    /\ Len(lookups) = 2
    /\ ~writeCalled

\* C6 (as stated): the exit code is non-zero if no records were extracted or
\* no identifiers could be resolved; otherwise it is zero.
C6_ExitCodeAsStated ==
    Terminal => ((exitCode # 0) <=> (raw = <<>> \/ payload = <<>>))

\* C6 (amended): the exit code is non-zero if fetch_popular_tv returned no
\* records (also when it raised), no identifiers could be resolved, or
\* writing the output file raised; otherwise it is zero.
C6_ExitCode ==
    Terminal => ((exitCode # 0) <=> (\/ raw = <<>>
                                     \/ payload = <<>>
                                     \/ (writeCalled /\ ~outfile.exists)))

C6_Witness ==
    /\ pc = "aborted"
    /\ exitMsg = "Unexpected error: OSError"
    /\ exitCode # 0
    /\ payload # <<>>

\* C7: the legacy matcher is applied exactly when the primary matcher has
\* yielded zero records, after the primary matcher and before the return;
\* when the primary matcher yields a record, the records returned are the
\* primary matcher's alone.
C7_LegacyOnlyAfterEmptyPrimary ==
    [][pc = "fallback" =>
         /\ matchers = <<"primary">>
         /\ (matchers' = <<"primary", "legacy">>) <=> (items = <<>>)
         /\ items # <<>> => (matchers' = matchers /\ raw' = items /\ pc' = "returned")]_vars

C7_Witness ==
    /\ pc = "returned"
    /\ matchers = <<"primary", "legacy">>
    /\ raw # <<>>

C9_ResolverAsStated ==
    \A i \in DOMAIN lookups :
       LET o == lookups[i].outcome
           ok == o.kind = "response" /\ o.status \in 200..299
                   /\ HasPositiveIntField(o)
       IN  /\ ok => lookups[i].result = o.body.thetvdb
           /\ lookups[i].result # PyNone => ok

\* C9 (amended): for every lookup response with status exactly 200 whose
\* body carries a positive integer in the nested field, imdb_to_tvdb returns
\* that integer; it returns a value only for a status 200 response whose
\* field is a positive integer or the boolean true, and the value is the field.
C9_Resolver ==
    \A i \in DOMAIN lookups :
       LET o == lookups[i].outcome
       IN  /\ (o.kind = "response" /\ o.status = 200 /\ HasPositiveIntField(o))
                => lookups[i].result = o.body.thetvdb
           /\ lookups[i].result # PyNone
                => (/\ o.kind = "response"
                    /\ o.status = 200
                    /\ HasPositiveIntField(o) \/ HasTrueField(o)
                    /\ lookups[i].result = o.body.thetvdb)

C9_Witness ==
    \E i \in DOMAIN lookups :
       /\ lookups[i].outcome.status = 200
       /\ HasPositiveIntField(lookups[i].outcome)
       /\ lookups[i].result = JInt(7)

\* C10 (as stated): every record fetch_popular_tv returns has a non-empty
\* title and an id of the form "tt" followed by one or more digits.
C10_WellFormedRecordAsStated ==
    \A i \in DOMAIN raw :
       raw[i].title # <<>> /\ WellFormedId(raw[i].imdbId)

\* C10 (amended): every record fetch_popular_tv returns has an id of the form
\* "tt" followed by one or more digits; its title may be empty.
C10_WellFormedId ==
    (\A i \in DOMAIN raw : WellFormedId(raw[i].imdbId))
    /\ (\A i \in DOMAIN items : WellFormedId(items[i].imdbId))

C10_Witness ==
    /\ pc = "returned"
    /\ matchers = <<"primary">>
    /\ \E i \in DOMAIN raw : raw[i].title = <<>> /\ WellFormedId(raw[i].imdbId)

====
